---- MODULE Spec2Model ----
(***************************************************************************)
(* Camera MJPEG streaming pipeline of agri-patrol-bot.                     *)
(*                                                                         *)
(* Spec       : src/app.py -- CameraManager (acquisition thread, lock       *)
(*              protected last-frame slot), generate_frames (one stream     *)
(*              loop per HTTP client) and the __main__ start/serve/stop     *)
(*              sequence.                                                   *)
(* SpecSimple : src/SimpleCamStreamer.py -- the standalone streamer whose   *)
(*              stream loop captures from the camera directly.              *)
(***************************************************************************)
EXTENDS Integers, Sequences, FiniteSets, TLC

(* ------------------------------ bounds -------------------------------- *)
\* number of concurrent HTTP clients of /video_feed
NumClients == 2
\* successful device captures the acquisition thread may make
MaxCaptures == 2
\* successful writes a single client connection may receive
MaxWrites == 2
\* calls of CameraManager.stop()
MaxStopCalls == 2
\* cells (text regions) of a frame
FrameCells == 3

Clients == 1..NumClients

(* --------------------------- frames and pixels ------------------------ *)
\* Python's None, as a reference
None == 0
\* the cell cv2.putText draws the timestamp into, at (10, 30)
TimestampCell == 1
\* the cell cv2.putText draws the robot position into, at (10, 60)
PositionCell == 2
\* the cell of the "Camera Not Available" text, at (150, 240)
NoticeCell == 3

Cells == 1..FrameCells

Black == <<0, 0, 0>>
White == <<255, 255, 255>>
TimestampColor == <<0, 255, 255>>
PositionColor == <<0, 255, 0>>

\* An ndarray: its cells (3-channel pixels) and whether cv2.imencode accepts it.
NdArray(cells, ok) == [cells |-> cells, ok |-> ok]

\* Python's None, as a value where an ndarray is expected
NoArray == [cells |-> <<>>, ok |-> FALSE]

\* The scene the device sees at its k-th capture, as an R,G,B triple.
SceneRGB(k) == <<k, 0, 100 + k>>

\* Picamera2.capture_array(): a fresh RGB888 array.
PicameraArray(k, ok) == NdArray([i \in Cells |-> SceneRGB(k)], ok)

\* cv2.VideoCapture.read(): a fresh array, already in BGR order.
OpenCVArray(k, ok) ==
    NdArray([i \in Cells |-> <<SceneRGB(k)[3], SceneRGB(k)[2], SceneRGB(k)[1]>>], ok)

\* cv2.cvtColor(frame, cv2.COLOR_RGB2BGR): a new array, channels reversed.
cvtColor(f) ==
    NdArray([i \in Cells |-> <<f.cells[i][3], f.cells[i][2], f.cells[i][1]>>], f.ok)

\* ndarray.copy(): a new array with the same contents.
ndarrayCopy(f) == NdArray([i \in Cells |-> f.cells[i]], f.ok)

\* cv2.putText(frame, ...): draws in place, here into one cell.
putText(f, cell, color) == [f EXCEPT !.cells[cell] = color]

\* np.zeros((480, 640, 3)) with the "Camera Not Available" text.
Placeholder == putText(NdArray([i \in Cells |-> Black], TRUE), NoticeCell, White)

\* The two overlays of generate_frames: timestamp, then robot position.
Overlays(f) ==
    putText(putText(f, TimestampCell, TimestampColor), PositionCell, PositionColor)

\* cv2.imencode('.jpg', frame, ...): (ret, buffer).
imencode(f) == [ret |-> f.ok, buffer |-> <<"JPEG", f.cells>>]

\* One part of the multipart/x-mixed-replace body.
MultipartPart(bytes) ==
    <<"--frame\r\n", "Content-Type: image/jpeg\r\n\r\n", bytes, "\r\n">>

WellFormedPart(p) ==
    /\ Len(p) = 4
    /\ p[1] = "--frame\r\n"
    /\ p[2] = "Content-Type: image/jpeg\r\n\r\n"
    /\ p[3][1] = "JPEG"
    /\ p[4] = "\r\n"

(* ------------------------------- state -------------------------------- *)
VARIABLES
    USE_PICAMERA2,  \* module global: picamera2 imported and not yet given up
    camera,         \* CameraManager.camera: "None", "Picamera2", "VideoCapture"
    running,        \* CameraManager.running
    frame,          \* CameraManager.frame: None or a reference into heap
    lock,           \* CameraManager.lock is held
    heap,           \* the ndarray objects, by reference
    devOpen,        \* the device is open (started and not released)
    releaseCalls,   \* calls of camera.stop() / camera.release() made by stop()
    mainPc,         \* position of the main thread
    startRet,       \* what camera_manager.start() returned
    stopCalls,      \* calls of CameraManager.stop() so far
    capPc,          \* position of the acquisition thread
    capRef,         \* the acquisition thread's local frame
    capCount,       \* successful device captures so far
    lastGood,       \* the array of the last successful acquisition iteration
    published,      \* the pixel contents assigned to CameraManager.frame so far
    cPc,            \* position of each client's generate_frames
    cFrame,         \* each generate_frames' local frame (a reference)
    cGot,           \* what get_frame() returned to it in this iteration
    cPart,          \* the part it yielded last
    sMainPc,        \* SimpleCamStreamer: position of __main__
    picam2,         \* SimpleCamStreamer: global picam2
    sInitFailed,    \* SimpleCamStreamer: initialize_camera() raised
    sServed,        \* SimpleCamStreamer: app.run() was reached
    sPc,            \* SimpleCamStreamer: position of each generate_frames
    sWritten,       \* SimpleCamStreamer: parts written to each client
    sFaulted,       \* SimpleCamStreamer: a capture raised inside the loop
    sWriteFailed,   \* SimpleCamStreamer: the client's write failed
    sWrittenAtFail  \* SimpleCamStreamer: parts written when the write failed

appVars ==
    <<USE_PICAMERA2, camera, running, frame, lock, heap, devOpen, releaseCalls,
      mainPc, startRet, stopCalls, capPc, capRef, capCount, lastGood,
      published, cPc, cFrame, cGot, cPart>>

simpleVars ==
    <<sMainPc, picam2, sInitFailed, sServed, sPc, sWritten, sFaulted, sWriteFailed,
      sWrittenAtFail>>

vars == <<appVars, simpleVars>>

\* References: one object per capture, one private object per client.
CaptureRef(k) == k
ClientRef(c) == MaxCaptures + c
Refs == 1..(MaxCaptures + NumClients)

\* The array a reference denotes (None denotes no array).
Deref(r) == IF r = None THEN NoArray ELSE heap[r]

InitApp ==
    /\ USE_PICAMERA2 \in BOOLEAN
    /\ camera = "None"
    /\ running = FALSE
    /\ frame = None
    /\ lock = FALSE
    /\ heap = [r \in Refs |-> NoArray]
    /\ devOpen = FALSE
    /\ releaseCalls = 0
    /\ mainPc = "start"
    /\ startRet = "none"
    /\ stopCalls = 0
    /\ capPc = "nothread"
    /\ capRef = None
    /\ capCount = 0
    /\ lastGood = NoArray
    /\ published = {}
    /\ cPc = [c \in Clients |-> "idle"]
    /\ cFrame = [c \in Clients |-> None]
    /\ cGot = [c \in Clients |-> NoArray]
    /\ cPart = [c \in Clients |-> <<>>]

InitSimple ==
    /\ sMainPc = "init"
    /\ picam2 = "None"
    /\ sInitFailed = FALSE
    /\ sServed = FALSE
    /\ sPc = [c \in Clients |-> "idle"]
    /\ sWritten = [c \in Clients |-> 0]
    /\ sFaulted = [c \in Clients |-> FALSE]
    /\ sWriteFailed = [c \in Clients |-> FALSE]
    /\ sWrittenAtFail = [c \in Clients |-> 0]

(* --------------------- src/app.py: the main thread -------------------- *)
\* camera_manager.start() over Picamera2, then app.run().
StartPicamera2 ==
    /\ mainPc = "start"
    /\ USE_PICAMERA2
    /\ camera' = "Picamera2"
    /\ devOpen' = TRUE
    /\ running' = TRUE
    /\ capPc' = "loop"
    /\ startRet' = "True"
    /\ mainPc' = "serving"
    /\ UNCHANGED <<USE_PICAMERA2, frame, lock, heap, releaseCalls, stopCalls,
                   capRef, capCount, lastGood, published,
                   cPc, cFrame, cGot, cPart>>
    /\ UNCHANGED simpleVars

\* camera_manager.start() over OpenCV (picamera2 missing or failed), then app.run().
StartOpenCV ==
    /\ mainPc = "start"
    /\ USE_PICAMERA2' = FALSE
    /\ camera' = "VideoCapture"
    /\ devOpen' = TRUE
    /\ running' = TRUE
    /\ capPc' = "loop"
    /\ startRet' = "True"
    /\ mainPc' = "serving"
    /\ UNCHANGED <<frame, lock, heap, releaseCalls, stopCalls,
                   capRef, capCount, lastGood, published,
                   cPc, cFrame, cGot, cPart>>
    /\ UNCHANGED simpleVars

\* camera_manager.start() with no camera to open: returns False; app.run() follows.
StartFail ==
    /\ mainPc = "start"
    /\ USE_PICAMERA2' = FALSE
    /\ camera' = "VideoCapture"
    /\ startRet' = "False"
    /\ mainPc' = "serving"
    /\ UNCHANGED <<running, devOpen, capPc, frame, lock, heap, releaseCalls,
                   stopCalls, capRef, capCount, lastGood, published,
                   cPc, cFrame, cGot, cPart>>
    /\ UNCHANGED simpleVars

\* The first statement of stop(): self.running = False.
StopEnter ==
    /\ running' = FALSE
    /\ stopCalls' = stopCalls + 1
    /\ mainPc' = "stop_sleep"
    /\ UNCHANGED <<USE_PICAMERA2, camera, frame, lock, heap, devOpen, releaseCalls,
                   startRet, capPc, capRef, capCount, lastGood,
                   published, cPc, cFrame, cGot, cPart>>
    /\ UNCHANGED simpleVars

\* app.run() ends (KeyboardInterrupt); finally: camera_manager.stop().
MainStop ==
    /\ mainPc = "serving"
    /\ stopCalls < MaxStopCalls
    /\ StopEnter

\* A further call of CameraManager.stop() after one has returned.
StopAgain ==
    /\ mainPc = "stopped"
    /\ stopCalls < MaxStopCalls
    /\ StopEnter

\* stop(): time.sleep(0.2).
StopSleep ==
    /\ mainPc = "stop_sleep"
    /\ mainPc' = "stop_release"
    /\ UNCHANGED <<USE_PICAMERA2, camera, running, frame, lock, heap, devOpen,
                   releaseCalls, startRet, stopCalls, capPc, capRef, capCount,
                   lastGood, published, cPc, cFrame, cGot, cPart>>
    /\ UNCHANGED simpleVars

\* stop(): self.camera.stop() or self.camera.release() when camera is not None.
StopRelease ==
    /\ mainPc = "stop_release"
    /\ IF camera # "None"
          THEN /\ releaseCalls' = releaseCalls + 1
               /\ devOpen' = FALSE
          ELSE UNCHANGED <<releaseCalls, devOpen>>
    /\ mainPc' = "stopped"
    /\ UNCHANGED <<USE_PICAMERA2, camera, running, frame, lock, heap,
                   startRet, stopCalls, capPc, capRef, capCount,
                   lastGood, published, cPc, cFrame, cGot, cPart>>
    /\ UNCHANGED simpleVars

mainLocals == <<mainPc, startRet, stopCalls>>
capLocals == <<capPc, capRef, capCount, lastGood>>
clientLocals == <<cPc, cFrame, cGot, cPart>>
deviceVars == <<USE_PICAMERA2, camera, devOpen, releaseCalls>>

(* ------------------ src/app.py: the acquisition thread ---------------- *)
\* The loop test of _capture_picamera2 / _capture_opencv: while self.running.
CaptureLoop ==
    /\ capPc = "loop"
    /\ capPc' = IF running THEN "capture" ELSE "exit"
    /\ UNCHANGED <<running, frame, lock, heap, published, capRef, capCount, lastGood,
                   mainLocals, clientLocals, deviceVars>>
    /\ UNCHANGED simpleVars

\* The thread calls self.camera.capture_array() / self.camera.read().
CaptureCall ==
    /\ capPc = "capture"
    /\ capPc' = "incall"
    /\ UNCHANGED <<running, frame, lock, heap, published, capRef, capCount,
                   lastGood, mainLocals, clientLocals, deviceVars>>
    /\ UNCHANGED simpleVars

\* capture_array() returns an array; cv2.cvtColor makes the BGR array of it.
CapturePicamera2Return ==
    /\ capPc = "incall"
    /\ camera = "Picamera2"
    /\ devOpen
    /\ capCount < MaxCaptures
    /\ \E ok \in BOOLEAN :
         LET k == capCount + 1
             bgr == cvtColor(PicameraArray(k, ok))
         IN  /\ heap' = [heap EXCEPT ![CaptureRef(k)] = bgr]
             /\ capRef' = CaptureRef(k)
             /\ capCount' = k
             /\ lastGood' = bgr
    /\ capPc' = "lock"
    /\ UNCHANGED <<running, frame, lock, published,
                   mainLocals, clientLocals, deviceVars>>
    /\ UNCHANGED simpleVars

\* Mutant of OpenCVAfterRead: the frame is published whatever ret says.
OpenCVPublishUnchecked(ret) == "lock"

\* What _capture_opencv does with (ret, frame): only ret = True is published.
OpenCVAfterRead(ret) == IF ret THEN "lock" ELSE "readfailed"

\* self.camera.read() returns (True, array) or (False, None).
CaptureOpenCVReturn ==
    /\ capPc = "incall"
    /\ camera = "VideoCapture"
    /\ \E ret \in BOOLEAN :
         /\ ret => (devOpen /\ capCount < MaxCaptures)
         /\ IF ret
               THEN \E ok \in BOOLEAN :
                      LET k == capCount + 1
                      IN  /\ heap' = [heap EXCEPT ![CaptureRef(k)] = OpenCVArray(k, ok)]
                          /\ capRef' = CaptureRef(k)
                          /\ capCount' = k
                          /\ lastGood' = OpenCVArray(k, ok)
                                     ELSE /\ capRef' = None
                                    /\ UNCHANGED <<heap, capCount, lastGood>>
         /\ capPc' = OpenCVAfterRead(ret)
    /\ UNCHANGED <<running, frame, lock, published,
                   mainLocals, clientLocals, deviceVars>>
    /\ UNCHANGED simpleVars

\* The device call raises: except Exception, print.
CaptureRaise ==
    /\ capPc = "incall"
    /\ capPc' = "readfailed"
    /\ UNCHANGED <<running, frame, lock, heap, published, capRef, capCount, lastGood,
                   mainLocals, clientLocals, deviceVars>>
    /\ UNCHANGED simpleVars

\* with self.lock: (entry)
CaptureAcquire ==
    /\ capPc = "lock"
    /\ ~lock
    /\ lock' = TRUE
    /\ capPc' = "assign"
    /\ UNCHANGED <<running, frame, heap, published, capRef, capCount,
                   lastGood, mainLocals, clientLocals, deviceVars>>
    /\ UNCHANGED simpleVars

\* self.frame = frame, and the lock is left. The array self.frame referred to
\* before is garbage once nothing refers to it; the thread's local is dead
\* until the next capture rebinds it.
CapturePublish ==
    /\ capPc = "assign"
    /\ frame' = capRef
    /\ published' = published \cup {Deref(capRef).cells}
    /\ heap' = IF frame # None /\ frame # capRef /\ \A c \in Clients : cFrame[c] # frame
                  THEN [heap EXCEPT ![frame] = NoArray]
                  ELSE heap
    /\ lock' = FALSE
    /\ capRef' = None
    /\ capPc' = IF camera = "Picamera2" THEN "paced" ELSE "loop"
    /\ UNCHANGED <<running, capCount, lastGood,
                   mainLocals, clientLocals, deviceVars>>
    /\ UNCHANGED simpleVars

\* _capture_picamera2: time.sleep(1/15) after a published frame.
CapturePace ==
    /\ capPc = "paced"
    /\ capPc' = "loop"
    /\ UNCHANGED <<running, frame, lock, heap, published, capRef, capCount,
                   lastGood, mainLocals, clientLocals, deviceVars>>
    /\ UNCHANGED simpleVars

\* time.sleep(0.1) after a failed capture.
CaptureBackoff ==
    /\ capPc = "readfailed"
    /\ capPc' = "loop"
    /\ UNCHANGED <<running, frame, lock, heap, published, capRef, capCount,
                   lastGood, mainLocals, clientLocals, deviceVars>>
    /\ UNCHANGED simpleVars

captureVars == <<capLocals, published>>

(* ---------------- src/app.py: one stream loop per client -------------- *)
\* GET /video_feed: Response(generate_frames(), ...) starts a stream loop.
Connect(c) ==
    /\ mainPc = "serving"
    /\ cPc[c] = "idle"
    /\ cPc' = [cPc EXCEPT ![c] = "get"]
    /\ UNCHANGED <<running, frame, lock, heap, cFrame, cGot, cPart,
                   mainLocals, captureVars, deviceVars>>
    /\ UNCHANGED simpleVars

\* get_frame(): with self.lock: (entry)
GetFrameAcquire(c) ==
    /\ cPc[c] = "get"
    /\ ~lock
    /\ lock' = TRUE
    /\ cPc' = [cPc EXCEPT ![c] = "copy"]
    /\ UNCHANGED <<running, frame, heap, cFrame, cGot, cPart,
                   mainLocals, captureVars, deviceVars>>
    /\ UNCHANGED simpleVars

\* Mutant of GetFrameCopy: return self.frame itself, without .copy().
GetFrameNoCopy(c) ==
    /\ cPc[c] = "copy"
    /\ heap' = [heap EXCEPT ![ClientRef(c)] = NoArray]
    /\ cFrame' = [cFrame EXCEPT ![c] = frame]
    /\ cGot' = [cGot EXCEPT ![c] = Deref(frame)]
    /\ lock' = FALSE
    /\ cPc' = [cPc EXCEPT ![c] = "check"]
    /\ UNCHANGED <<running, frame, cPart,
                   mainLocals, captureVars, deviceVars>>
    /\ UNCHANGED simpleVars

\* get_frame(): return self.frame.copy(), or None; the lock is left.
GetFrameCopy(c) ==
    /\ cPc[c] = "copy"
    /\ IF frame # None
          THEN /\ heap' = [heap EXCEPT ![ClientRef(c)] = ndarrayCopy(heap[frame])]
               /\ cFrame' = [cFrame EXCEPT ![c] = ClientRef(c)]
               /\ cGot' = [cGot EXCEPT ![c] = ndarrayCopy(heap[frame])]
          ELSE /\ heap' = [heap EXCEPT ![ClientRef(c)] = NoArray]
               /\ cFrame' = [cFrame EXCEPT ![c] = None]
               /\ cGot' = [cGot EXCEPT ![c] = NoArray]
    /\ lock' = FALSE
    /\ cPc' = [cPc EXCEPT ![c] = "check"]
    /\ UNCHANGED <<running, frame, cPart,
                   mainLocals, captureVars, deviceVars>>
    /\ UNCHANGED simpleVars

\* The locals of an iteration (frame, buffer, the part) are dead once the
\* iteration is over: the next get_frame() rebinds them.
IterationOver(c) ==
    /\ cFrame' = [cFrame EXCEPT ![c] = None]
    /\ cGot' = [cGot EXCEPT ![c] = NoArray]
    /\ cPart' = [cPart EXCEPT ![c] = <<>>]

\* Mutant of FrameOrPlaceholder: the None test is missing.
FrameUnchecked(f) == f

\* if frame is None: frame = <the placeholder image>.
FrameOrPlaceholder(f) == IF f = NoArray THEN Placeholder ELSE f

\* Mutant of OverlayTarget: the overlays are drawn into camera_manager.frame.
OverlayOnStored(c) == IF frame # None THEN frame ELSE ClientRef(c)

\* The array the two cv2.putText overlays of generate_frames draw into: the
\* loop's local frame (the placeholder is a new array of the loop's own).
OverlayTarget(c) == IF cFrame[c] = None THEN ClientRef(c) ELSE cFrame[c]

\* The body of one iteration after get_frame(): placeholder if None, the two
\* overlays drawn in place, cv2.imencode; if not ret: continue; else the part
\* is yielded. All of it works on the loop's local frame.
RenderAndEncode(c) ==
    /\ cPc[c] = "check"
    /\ LET t == OverlayTarget(c)
           drawn == Overlays(FrameOrPlaceholder(Deref(cFrame[c])))
           e == imencode(drawn)
       IN  IF e.ret
              THEN /\ heap' = [heap EXCEPT ![t] = drawn]
                   /\ cFrame' = [cFrame EXCEPT ![c] = t]
                   /\ cPart' = [cPart EXCEPT ![c] = MultipartPart(e.buffer)]
                   /\ cPc' = [cPc EXCEPT ![c] = "yield"]
                   /\ UNCHANGED cGot
              ELSE /\ heap' = [[heap EXCEPT ![t] = drawn] EXCEPT ![ClientRef(c)] = NoArray]
                   /\ IterationOver(c)
                   /\ cPc' = [cPc EXCEPT ![c] = "get"]
    /\ UNCHANGED <<running, frame, lock, mainLocals, captureVars, deviceVars>>
    /\ UNCHANGED simpleVars

\* The server writes the yielded part to the client; the loop resumes.
WriteOk(c) ==
    /\ cPc[c] = "yield"
    /\ heap' = [heap EXCEPT ![ClientRef(c)] = NoArray]
    /\ IterationOver(c)
    /\ cPc' = [cPc EXCEPT ![c] = "paced"]
    /\ UNCHANGED <<running, frame, lock, mainLocals, captureVars, deviceVars>>
    /\ UNCHANGED simpleVars

\* Mutant of WriteFail: the closing generator also stops the camera.
WriteFailStopsCamera(c) ==
    /\ cPc[c] = "yield"
    /\ heap' = [heap EXCEPT ![ClientRef(c)] = NoArray]
    /\ IterationOver(c)
    /\ cPc' = [cPc EXCEPT ![c] = "closed"]
    /\ running' = FALSE
    /\ UNCHANGED <<frame, lock, mainLocals, captureVars, deviceVars>>
    /\ UNCHANGED simpleVars

\* The write fails (client gone): the server closes the generator at its yield.
WriteFail(c) ==
    /\ cPc[c] = "yield"
    /\ heap' = [heap EXCEPT ![ClientRef(c)] = NoArray]
    /\ IterationOver(c)
    /\ cPc' = [cPc EXCEPT ![c] = "closed"]
    /\ UNCHANGED <<running, frame, lock, mainLocals, captureVars, deviceVars>>
    /\ UNCHANGED simpleVars

\* time.sleep(1/15) after a part.
StreamPace(c) ==
    /\ cPc[c] = "paced"
    /\ cPc' = [cPc EXCEPT ![c] = "get"]
    /\ UNCHANGED <<running, frame, lock, heap, cFrame, cGot, cPart,
                   mainLocals, captureVars, deviceVars>>
    /\ UNCHANGED simpleVars

(* ------------------------ src/app.py: the program --------------------- *)
Init == InitApp /\ InitSimple

Next ==
    \/ StartPicamera2
    \/ StartOpenCV
    \/ StartFail
    \/ MainStop
    \/ StopAgain
    \/ StopSleep
    \/ StopRelease
    \/ CaptureLoop
    \/ CaptureCall
    \/ CapturePicamera2Return
    \/ CaptureOpenCVReturn
    \/ CaptureRaise
    \/ CaptureAcquire
    \/ CapturePublish
    \/ CapturePace
    \/ CaptureBackoff
    \/ \E c \in Clients : Connect(c)
    \/ \E c \in Clients : GetFrameAcquire(c)
    \/ \E c \in Clients : GetFrameCopy(c)
    \/ \E c \in Clients : RenderAndEncode(c)
    \/ \E c \in Clients : WriteOk(c)
    \/ \E c \in Clients : WriteFail(c)
    \/ \E c \in Clients : StreamPace(c)

Spec == Init /\ [][Next]_vars

(* --------------------- src/SimpleCamStreamer.py ----------------------- *)
\* initialize_camera() succeeds; __main__ goes on to app.run().
InitializeCamera ==
    /\ sMainPc = "init"
    /\ picam2' = "started"
    /\ sServed' = TRUE
    /\ sMainPc' = "serving"
    /\ UNCHANGED <<sInitFailed, sPc, sWritten, sFaulted, sWriteFailed, sWrittenAtFail>>
    /\ UNCHANGED appVars

\* initialize_camera() raises, in Picamera2() or after it: except Exception
\* prints the error and __main__ falls through to finally, past app.run().
InitializeCameraRaises ==
    /\ sMainPc = "init"
    /\ \E made \in BOOLEAN : picam2' = IF made THEN "created" ELSE "None"
    /\ sInitFailed' = TRUE
    /\ sMainPc' = "finally"
    /\ UNCHANGED <<sServed, sPc, sWritten, sFaulted, sWriteFailed, sWrittenAtFail>>
    /\ UNCHANGED appVars

\* app.run() ends (KeyboardInterrupt or an exception).
ServerEnds ==
    /\ sMainPc = "serving"
    /\ sMainPc' = "finally"
    /\ UNCHANGED <<picam2, sInitFailed, sServed, sPc, sWritten, sFaulted, sWriteFailed, sWrittenAtFail>>
    /\ UNCHANGED appVars

\* finally: cleanup(): picam2.stop(); picam2.close() when picam2 is set; the
\* process ends.
Cleanup ==
    /\ sMainPc = "finally"
    /\ picam2' = IF picam2 # "None" THEN "closed" ELSE picam2
    /\ sMainPc' = "exited"
    /\ UNCHANGED <<sInitFailed, sServed, sPc, sWritten, sFaulted, sWriteFailed, sWrittenAtFail>>
    /\ UNCHANGED appVars

SAlive == sMainPc # "exited"

\* GET /video_feed: Response(generate_frames(), ...) starts a stream loop.
SConnect(c) ==
    /\ sMainPc = "serving"
    /\ sPc[c] = "idle"
    /\ sPc' = [sPc EXCEPT ![c] = "capture"]
    /\ UNCHANGED <<sMainPc, picam2, sInitFailed, sServed, sWritten, sFaulted, sWriteFailed, sWrittenAtFail>>
    /\ UNCHANGED appVars

\* picam2.capture_file(buffer, format='jpeg') returns; the part is yielded.
SCapture(c) ==
    /\ SAlive
    /\ sPc[c] = "capture"
    /\ picam2 = "started"
    /\ sPc' = [sPc EXCEPT ![c] = "yield"]
    /\ UNCHANGED <<sMainPc, picam2, sInitFailed, sServed, sWritten, sFaulted, sWriteFailed, sWrittenAtFail>>
    /\ UNCHANGED appVars

\* picam2.capture_file raises: the except clause around the while loop prints
\* the error and the generator returns.
SCaptureRaises(c) ==
    /\ SAlive
    /\ sPc[c] = "capture"
    /\ sFaulted' = [sFaulted EXCEPT ![c] = TRUE]
    /\ sPc' = [sPc EXCEPT ![c] = "ended"]
    /\ UNCHANGED <<sMainPc, picam2, sInitFailed, sServed, sWritten, sWriteFailed,
                   sWrittenAtFail>>
    /\ UNCHANGED appVars

\* The server writes the yielded part to the client; the loop resumes.
SWriteOk(c) ==
    /\ SAlive
    /\ sPc[c] = "yield"
    /\ sWritten[c] < MaxWrites
    /\ sWritten' = [sWritten EXCEPT ![c] = sWritten[c] + 1]
    /\ sPc' = [sPc EXCEPT ![c] = "paced"]
    /\ UNCHANGED <<sMainPc, picam2, sInitFailed, sServed, sFaulted, sWriteFailed, sWrittenAtFail>>
    /\ UNCHANGED appVars

\* The write fails (client gone): the server closes the generator at its
\* yield; GeneratorExit is not an Exception, so the except clause is passed.
SWriteFail(c) ==
    /\ SAlive
    /\ sPc[c] = "yield"
    /\ sWriteFailed' = [sWriteFailed EXCEPT ![c] = TRUE]
    /\ sWrittenAtFail' = [sWrittenAtFail EXCEPT ![c] = sWritten[c]]
    /\ sPc' = [sPc EXCEPT ![c] = "closed"]
    /\ UNCHANGED <<sMainPc, picam2, sInitFailed, sServed, sWritten, sFaulted>>
    /\ UNCHANGED appVars

\* time.sleep(0.033) after a part.
SPace(c) ==
    /\ SAlive
    /\ sPc[c] = "paced"
    /\ sPc' = [sPc EXCEPT ![c] = "capture"]
    /\ UNCHANGED <<sMainPc, picam2, sInitFailed, sServed, sWritten, sFaulted, sWriteFailed, sWrittenAtFail>>
    /\ UNCHANGED appVars

NextSimple ==
    \/ InitializeCamera
    \/ InitializeCameraRaises
    \/ ServerEnds
    \/ Cleanup
    \/ \E c \in Clients : SConnect(c)
    \/ \E c \in Clients : SCapture(c)
    \/ \E c \in Clients : SCaptureRaises(c)
    \/ \E c \in Clients : SWriteOk(c)
    \/ \E c \in Clients : SWriteFail(c)
    \/ \E c \in Clients : SPace(c)

\* SimpleCamStreamer imports picamera2 unconditionally.
InitSimpleProgram == Init /\ USE_PICAMERA2

SpecSimple == InitSimpleProgram /\ [][NextSimple]_vars

(* ------------------------------- claims ------------------------------- *)
TypeOK ==
    /\ USE_PICAMERA2 \in BOOLEAN
    /\ camera \in {"None", "Picamera2", "VideoCapture"}
    /\ running \in BOOLEAN
    /\ frame \in {None} \cup Refs
    /\ lock \in BOOLEAN
    /\ devOpen \in BOOLEAN
    /\ releaseCalls \in 0..MaxStopCalls
    /\ stopCalls \in 0..MaxStopCalls
    /\ capCount \in 0..MaxCaptures
    /\ capPc \in {"nothread", "loop", "capture", "incall", "lock", "assign",
                  "paced", "readfailed", "exit"}
    /\ \A c \in Clients : cPc[c] \in {"idle", "get", "copy", "check", "yield",
                                      "paced", "closed"}
    /\ \A c \in Clients : sPc[c] \in {"idle", "capture", "yield", "paced",
                                      "ended", "closed"}
    /\ \A c \in Clients : sWritten[c] \in 0..MaxWrites

\* The array CameraManager.frame refers to.
StoredArray == Deref(frame)

\* The part a stream loop yields for the placeholder image.
PlaceholderPart == MultipartPart(imencode(Overlays(Placeholder)).buffer)

\* C1: every get_frame() result is None when no publish has completed, and
\* otherwise the whole pixel content of one frame that was published, whatever
\* the interleaving of publishes and reads: never a mix of two frames.
C1_GetFrameWholePublishedFrame ==
    [][\A c \in Clients :
         (cPc[c] = "copy" /\ cPc'[c] = "check") =>
            IF published = {}
               THEN cGot'[c] = NoArray
               ELSE cGot'[c] # NoArray /\ cGot'[c].cells \in published]_vars

\* C1 witness: after two publishes a reader holds a whole frame that is no
\* longer the stored one (a publish came between its read and now).
C1_Witness ==
    \E c \in Clients :
        /\ cPc[c] = "check"
        /\ cGot[c] # NoArray
        /\ Cardinality(published) >= 2
        /\ cGot[c].cells \in published
        /\ cGot[c].cells # Deref(frame).cells

\* C2: a stream loop whose write fails after N successful writes is over with
\* exactly those N writes, nothing being produced or written afterwards, and
\* a failed write is the only way a stream loop ends (SimpleCamStreamer's loop).
C2_OnlyWriteFailureEndsLoop ==
    \A c \in Clients :
        /\ sWriteFailed[c] => (sPc[c] = "closed" /\ sWritten[c] = sWrittenAtFail[c])
        /\ sPc[c] \in {"ended", "closed"} => sWriteFailed[c]

\* C3: an iteration of the stream loop that got None from get_frame() always
\* yields one well-formed multipart part carrying the placeholder image; it
\* neither ends the loop nor skips the part.
C3_PlaceholderWhileNoFrame ==
    [][\A c \in Clients :
         (cPc[c] = "check" /\ cGot[c] = NoArray /\ cPc'[c] # "check") =>
            /\ cPc'[c] = "yield"
            /\ WellFormedPart(cPart'[c])
            /\ cPart'[c] = PlaceholderPart]_vars

\* C3 witness: nothing was ever published and a loop has a placeholder part
\* at its yield.
C3_Witness ==
    \E c \in Clients :
        /\ published = {}
        /\ frame = None
        /\ cPc[c] = "yield"
        /\ cGot[c] = NoArray
        /\ cPart[c] = PlaceholderPart

\* C4: one transient fault inside a stream loop iteration never terminates
\* the client's stream (SimpleCamStreamer's loop).
C4_FaultNeverEndsStream ==
    \A c \in Clients : sFaulted[c] => sPc[c] \notin {"ended", "closed"} \/ sWriteFailed[c]

\* C5: stop() called twice releases the device exactly once: the second call
\* makes no further release call on the device.
C5_DeviceReleasedOnce == releaseCalls <= 1

\* C6: no capture call is in progress on, or issued to, a device that stop()
\* has already released.
C6_NoCaptureOnReleasedDevice == ~(capPc = "incall" /\ releaseCalls > 0)

\* C7: when the camera cannot be opened at startup the process does not end
\* without having started the HTTP server (SimpleCamStreamer's __main__).
C7_ServerStartsWithoutCamera ==
    (sInitFailed /\ sMainPc = "exited") => sServed

\* C8: a failed capture is recovered inside the acquisition loop: whenever
\* the thread is not between a successful capture and its publish, the stored
\* frame is the last successfully captured one (a failed iteration leaves it
\* alone, the next good capture replaces it), and the loop only ever exits
\* because the running flag was cleared.
C8_CaptureFaultRecoveredLocally ==
    /\ capPc \notin {"lock", "assign"} => Deref(frame) = lastGood
    /\ capPc = "exit" => ~running

\* C8 witness: a capture has just failed after a frame had been published,
\* the loop is still running, the frame is retained and a client is being
\* served a part.
C8_Witness ==
    /\ capPc = "readfailed"
    /\ running
    /\ frame # None
    /\ Deref(frame) = lastGood
    /\ \E c \in Clients : cPc[c] = "yield"

\* C9: the step in which one client's write fails ends that client's loop
\* only: the running flag, the device, the lock, the stored frame and the
\* acquisition thread are unchanged, and so is every other client's loop.
C9_DisconnectIsLocal ==
    [][\A c \in Clients :
         (cPc[c] = "yield" /\ cPc'[c] = "closed") =>
            /\ UNCHANGED <<running, camera, devOpen, releaseCalls, frame, lock, capPc>>
            /\ StoredArray' = StoredArray
            /\ \A d \in Clients \ {c} :
                 /\ cPc'[d] = cPc[d]
                 /\ cPart'[d] = cPart[d]
                 /\ cFrame'[d] = cFrame[d]]_vars

\* C9 witness: one client has disconnected while the source runs with a
\* stored frame and another client has a part of that camera at its yield.
C9_Witness ==
    \E c, d \in Clients :
        /\ c # d
        /\ cPc[c] = "closed"
        /\ cPc[d] = "yield"
        /\ cGot[d] # NoArray
        /\ running
        /\ frame # None

\* C10: the frame get_frame() returned is private to the loop: the stored
\* frame only ever holds published pixels (no overlay reaches it), no two
\* holders share an array, and what a loop holds is what it was given (before
\* its overlays) or that with its own overlays (after), whatever is published
\* or drawn by others meanwhile.
C10_ReturnedFrameIsPrivate ==
    /\ frame # None => heap[frame].cells \in published
    /\ \A c \in Clients :
         /\ cFrame[c] # None =>
              /\ cFrame[c] # frame
              /\ \A d \in Clients \ {c} : cFrame[d] # cFrame[c]
         /\ cPc[c] = "check" => Deref(cFrame[c]) = cGot[c]
         /\ cPc[c] = "yield" =>
              Deref(cFrame[c]) = Overlays(FrameOrPlaceholder(cGot[c]))

\* C10 witness: a loop holds its overlaid copy of a frame that has since been
\* replaced in the store, while another loop holds a copy without overlays.
C10_Witness ==
    \E c, d \in Clients :
        /\ c # d
        /\ cPc[c] = "yield"
        /\ cGot[c] # NoArray
        /\ Deref(frame) # cGot[c]
        /\ frame # None
        /\ cPc[d] = "check"
        /\ cGot[d] # NoArray
        /\ Deref(cFrame[d]) = cGot[d]

====
